---- MODULE Spec2Model ----
(***************************************************************************)
(* Model of the structure-aware preprocessing pipeline (DataHandler in     *)
(* src/final/data_handler.py) and of the batch collation                   *)
(* (src/structure_aware_customization/structure_aware_data.py).            *)
(*                                                                         *)
(* Representation choices                                                  *)
(*  - A Python str that the code builds with join and takes apart with     *)
(*    split is a sequence of tokens: a token is a separator ("," or ";")   *)
(*    or an atom that holds no separator (the text of one number).  split  *)
(*    and join work on that sequence exactly as on characters, so an empty *)
(*    field ("0,,2") is an empty field here too.                           *)
(*  - str(x) of a number is the one-token string <<ToString(x)>>; int and  *)
(*    float parse one-token fields back and fail on anything else.         *)
(*  - A float that the code computes as a quotient of two integers is the  *)
(*    rational in lowest terms <<num, den>>; Python's correctly rounded    *)
(*    division is monotone, so order and equality with 0 and 1 agree.      *)
(*  - An AST is an arena: nodes 1..n, node 1 the root, parent[i] < i,      *)
(*    parent[1] = 0 (None).  Node equality is identity of the tree node.   *)
(***************************************************************************)
EXTENDS Integers, Sequences, FiniteSets, TLC

VARIABLES
    pc,                 \* position of the running operation
    arg,                \* the argument the operation was called with (kept for reference)
    data,               \* the DataFrame an operation works on: a sequence of rows
    ret,                \* the value an operation returned
    failed_count,       \* preprocess: samples skipped so far
    rows,               \* preprocess: rows kept so far
    start,              \* store_preprocessed_data: first row of the next chunk
    num_rows_per_file,  \* store_preprocessed_data: chunk size
    all_node_types,     \* store_preprocessed_data: node types seen so far
    global_max_rel_pos, \* store_preprocessed_data: largest relative distance so far
    files,              \* save_dir: chunk start |-> persisted chunk
    chunk_data,         \* store_preprocessed_data: the chunk of the last pass, in memory
    it,                 \* preprocess: rows of the input consumed so far
    batch,              \* collate_fn: the list of samples
    padding_value,      \* StructureAwareDataset.padding_value (tokenizer.eos_token_id)
    all_node_types_pkl  \* save_dir/all_node_types.pkl: the sorted vocabulary

vars == <<pc, arg, data, ret, failed_count, rows, start, num_rows_per_file,
          all_node_types, global_max_rel_pos, files, chunk_data, it, batch,
          padding_value,
                   all_node_types_pkl>>

-----------------------------------------------------------------------------
(* Bounds of the model *)

MaxNodes == 5
MaxLeaves == 3
MaxEdges == 2
MaxPosIds == 3
MaxSide == 4
MaxPreRows == 2
MaxBatch == 2
MaxDim == 2
MaxStoreRows == 2
MaxChunk == 2

-----------------------------------------------------------------------------
(* Program constants *)

START_TOK_ID_DFG == 0
PAD_TOK_ID_DFG == 2
MaxSimLeaves == 512
DefaultMaxDistance == 127

START_AST == "<START_AST>"
END_AST == "<END_AST>"

-----------------------------------------------------------------------------
(* Arithmetic helpers (Python builtins) *)

Min(a, b) == IF a <= b THEN a ELSE b
Max(a, b) == IF a >= b THEN a ELSE b
Abs(a) == IF a < 0 THEN -a ELSE a

RECURSIVE Gcd(_, _)
Gcd(a, b) == IF b = 0 THEN a ELSE Gcd(b, a % b)

\* the float num / den, den > 0, as a rational in lowest terms
Quot(num, den) == LET g == Gcd(num, den) IN <<num \div g, den \div g>>

RatLt(x, y) == x[1] * y[2] < y[1] * x[2]
RatLe(x, y) == x[1] * y[2] <= y[1] * x[2]

SeqMax(s) == CHOOSE m \in {s[i] : i \in DOMAIN s} : \A i \in DOMAIN s : s[i] <= m

RECURSIVE Flatten(_)
Flatten(ss) == IF ss = <<>> THEN <<>> ELSE Head(ss) \o Flatten(Tail(ss))

Range(s) == {s[i] : i \in DOMAIN s}

-----------------------------------------------------------------------------
(* Python str operations on token sequences *)

\* a sequence given by a rule, with its elements computed once
Eager(s) == s \o <<>>

str(x) == <<ToString(x)>>

RECURSIVE JoinRec(_, _)
JoinRec(sep, fields) ==
    IF fields = <<>> THEN <<>>
    ELSE IF Len(fields) = 1 THEN fields[1]
    ELSE fields[1] \o <<sep>> \o JoinRec(sep, Tail(fields))

\* sep.join(fields); fields of one length are laid out by position, which is
\* the same string
join(sep, fields) ==
    LET fs == Eager(fields)
    IN IF fs # <<>> /\ \A i \in DOMAIN fs : Len(fs[i]) = Len(fs[1])
       THEN LET w == Len(fs[1])
            IN Eager([p \in 1..(Len(fs) * (w + 1) - 1) |->
                        IF (p - 1) % (w + 1) = w THEN sep
                        ELSE fs[((p - 1) \div (w + 1)) + 1][((p - 1) % (w + 1)) + 1]])
       ELSE JoinRec(sep, fs)

\* s.split(sep): the fields between the separators, the empty ones included
split(s, sep) ==
    LET P == SelectSeq([i \in DOMAIN s |-> i], LAMBDA i : s[i] = sep)
        posOf(k) == IF k = 0 THEN 0
                    ELSE IF k = Len(P) + 1 THEN Len(s) + 1
                    ELSE P[k]
    IN Eager([k \in 1..(Len(P) + 1) |-> SubSeq(s, posOf(k - 1) + 1, posOf(k) - 1)])

\* float(field): the text of a similarity value back to the value.  Every value
\* the pipeline writes is a quotient n / d with 0 <= n <= d <= MaxNodes^2.
FloatValues ==
    {Quot(n, d) : n \in 0..(MaxNodes * MaxNodes), d \in 1..(MaxNodes * MaxNodes)}
FloatTexts == {<<ToString(r), r>> : r \in FloatValues}
FloatTable == [s \in {p[1] : p \in FloatTexts} |-> (CHOOSE p \in FloatTexts : p[1] = s)[2]]

\* int(field): the text of an integer back to the integer; anything else, the
\* empty field included, raises ValueError
IntValues == (-1)..300
IntTexts == {<<ToString(n), n>> : n \in IntValues}
IntTable == [s \in {p[1] : p \in IntTexts} |-> (CHOOSE p \in IntTexts : p[1] = s)[2]]

IsIntText(field) == Len(field) = 1 /\ field[1] \in DOMAIN IntTable
int(field) == IntTable[field[1]]

IsFloatText(field) == Len(field) = 1 /\ field[1] \in DOMAIN FloatTable
float(field) == FloatTable[field[1]]

-----------------------------------------------------------------------------
(* AST arena and leaf-root paths *)

NodeTypes == {"a", "b"}

Trees ==
    UNION {
        { [n |-> n, parent |-> p, type |-> t] :
            p \in { q \in [1..n -> 0..(n - 1)] :
                      /\ q[1] = 0
                      /\ \A i \in 2..n : q[i] >= 1 /\ q[i] < i },
            t \in [1..n -> NodeTypes] }
        : n \in 1..MaxNodes }

IsLeaf(tree, i) == \A j \in 1..tree.n : tree.parent[j] # i

RECURSIVE LeavesFrom(_, _)
LeavesFrom(tree, i) ==
    IF i > tree.n THEN <<>>
    ELSE (IF IsLeaf(tree, i) THEN <<i>> ELSE <<>>) \o LeavesFrom(tree, i + 1)

\* row.ast_leaves: the terminal nodes in traversal order
AstLeaves(tree) == LeavesFrom(tree, 1)

Node(tree, i) == [id |-> i, type |-> tree.type[i]]
Sentinel(t) == [id |-> 0, type |-> t]

RECURSIVE PathFrom(_, _)
PathFrom(tree, i) ==
    IF tree.parent[i] = 0 THEN <<Node(tree, i)>>
    ELSE <<Node(tree, i)>> \o PathFrom(tree, tree.parent[i])

get_lr_path(tree, leaf) == PathFrom(tree, leaf)

-----------------------------------------------------------------------------
(* Leaf-leaf similarity *)

\* p[-i] of a Python list
Neg(p, i) == p[Len(p) - i + 1]

RECURSIVE CommonLoop(_, _, _, _)
CommonLoop(p1, p2, i, common) ==
    IF i > Min(Len(p1), Len(p2)) THEN common
    ELSE IF Neg(p1, i) = Neg(p2, i) THEN CommonLoop(p1, p2, i + 1, common + 1)
    ELSE common

\* mutants of get_ll_sim: without the sentinel short-circuit; comparing node types
get_ll_sim_no_sentinel(lr_path1, lr_path2) ==
    LET common == CommonLoop(lr_path1, lr_path2, 2, 1)
    IN Quot(common * common, Len(lr_path1) * Len(lr_path2))

RECURSIVE TypeCommonLoop(_, _, _, _, _)
TypeCommonLoop(p1, p2, i, last, common) ==
    IF i > last THEN common
    ELSE IF Neg(p1, i).type = Neg(p2, i).type
         THEN TypeCommonLoop(p1, p2, i + 1, last, common + 1)
    ELSE common

get_ll_sim_by_type(lr_path1, lr_path2) ==
    LET node_types == {n.type : n \in Range(lr_path1 \o lr_path2)}
    IN IF START_AST \in node_types \/ END_AST \in node_types THEN <<0, 1>>
       ELSE LET common == TypeCommonLoop(lr_path1, lr_path2, 2,
                                              Min(Len(lr_path1), Len(lr_path2)), 1)
            IN Quot(common * common, Len(lr_path1) * Len(lr_path2))

get_ll_sim(lr_path1, lr_path2) ==
    LET node_types == {n.type : n \in Range(lr_path1 \o lr_path2)}
    IN IF START_AST \in node_types \/ END_AST \in node_types THEN <<0, 1>>
       ELSE LET common == CommonLoop(lr_path1, lr_path2, 2, 1)
            IN Quot(common * common, Len(lr_path1) * Len(lr_path2))

curr_lr_paths(row) ==
    <<<<Sentinel(START_AST)>>>>
    \o [k \in 1..Len(row.ast_leaves) |-> get_lr_path(row.ast, row.ast_leaves[k])]
    \o <<<<Sentinel(END_AST)>>>>

curr_ll_sims(paths) ==
    LET num_ast_leaves == Min(Len(paths), MaxSimLeaves)
    IN [i \in 1..num_ast_leaves |->
         [j \in 1..num_ast_leaves |->
            IF i = j THEN <<1, 1>>
            ELSE IF i < j THEN get_ll_sim(paths[i], paths[j])
            ELSE get_ll_sim(paths[j], paths[i])]]

\* the loader's parse of the ll_sims column (before padding)
parse_ll_sims(x) ==
    LET subs == split(x, ";")
    IN [i \in 1..Len(subs) |->
          LET fs == split(subs[i], ",") IN [j \in 1..Len(fs) |-> float(fs[j])]]

ll_sims_str(m) ==
    join(";", [i \in 1..Len(m) |-> join(",", [j \in 1..Len(m[i]) |-> str(m[i][j])])])

\* one row of add_ast_lr_paths_and_ll_sim: the columns it adds, ast_leaves dropped
AddPathsRow(row) ==
    LET paths == curr_lr_paths(row)
        types == [k \in 1..Len(paths) |-> [n \in 1..Len(paths[k]) |-> paths[k][n].type]]
        keep == DOMAIN row \ {"ast_leaves", "ast"}
    IN [f \in keep \cup {"ll_sims", "lr_paths_types", "lr_paths_len"} |->
          CASE f = "ll_sims" -> ll_sims_str(curr_ll_sims(paths))
            [] f = "lr_paths_types" -> types
            [] f = "lr_paths_len" -> join(",", [k \in 1..Len(types) |-> str(Len(types[k]))])
            [] OTHER -> row[f]]

add_ast_lr_paths_and_ll_sim(d) ==
    [data |-> [i \in 1..Len(d) |-> AddPathsRow(d[i])],
     all_node_types |->
        UNION {Range(Flatten(AddPathsRow(d[i]).lr_paths_types)) : i \in 1..Len(d)}]

-----------------------------------------------------------------------------
(* Specification: add_ast_lr_paths_and_ll_sim on a one-sample chunk *)

Idle ==
    /\ failed_count = 0 /\ rows = <<>> /\ start = 0 /\ num_rows_per_file = 0
    /\ all_node_types = {} /\ global_max_rel_pos = 0 /\ files = <<>>
    /\ chunk_data = <<>> /\ it = 0 /\ batch = <<>> /\ padding_value = 0
    /\ all_node_types_pkl = <<>>

InitSim ==
    /\ pc = "sim_call"
    /\ \E tree \in Trees :
          data = <<[ast |-> tree, ast_leaves |-> AstLeaves(tree)]>>
    /\ arg = data
    /\ ret = {}
    /\ Idle

AddAstLrPathsAndLlSim ==
    /\ pc = "sim_call"
    /\ LET r == add_ast_lr_paths_and_ll_sim(data)
       IN /\ data' = r.data
          /\ ret' = r.all_node_types
    /\ pc' = "sim_done"
    /\ UNCHANGED <<arg, failed_count, rows, start, num_rows_per_file, all_node_types,
                   global_max_rel_pos, files, chunk_data, it, batch, padding_value,
                   all_node_types_pkl>>

NextSim == AddAstLrPathsAndLlSim

SpecSim == InitSim /\ [][NextSim]_vars

\* what the similarity claims read: the stored matrix, parsed as the loader does,
\* and the sample the operation was called with
SimMatrix == parse_ll_sims(data[1].ll_sims)
SimPaths == curr_lr_paths(arg[1])
IsSentinelPath(p) == \E k \in DOMAIN p : p[k].type \in {START_AST, END_AST}

\* C1: the similarity matrix of a sample has side min(leaves + 2, 512), is
\* symmetric, has diagonal 1, and off the diagonal holds exactly 0 where either
\* path is a sentinel path and a value in (0, 1] everywhere else.
C1_SimMatrixShape ==
    pc = "sim_done" =>
        LET m == SimMatrix
            n == Min(Len(arg[1].ast_leaves) + 2, MaxSimLeaves)
        IN /\ Len(m) = n
           /\ \A i \in 1..n : Len(m[i]) = n /\ m[i][i] = <<1, 1>>
           /\ \A i, j \in 1..n :
                 /\ m[i][j] = m[j][i]
                 /\ i # j =>
                      IF IsSentinelPath(SimPaths[i]) \/ IsSentinelPath(SimPaths[j])
                      THEN m[i][j] = <<0, 1>>
                      ELSE RatLt(<<0, 1>>, m[i][j]) /\ RatLe(m[i][j], <<1, 1>>)

\* C1 witness: a stored matrix of at least three leaves with an off-diagonal
\* entry strictly between 0 and 1 and a sentinel entry of 0.
C1_Witness ==
    /\ pc = "sim_done"
    /\ Len(SimMatrix) >= 5
    /\ SimMatrix[1][2] = <<0, 1>>
    /\ \E i, j \in 2..(Len(SimMatrix) - 1) :
          i # j /\ RatLt(<<0, 1>>, SimMatrix[i][j]) /\ RatLt(SimMatrix[i][j], <<1, 1>>)

\* C2 as written: the entry of two leaf paths is common^2 / (|p_i| * |p_j|) with
\* common = 1 + the number of consecutive positions below the root at which the
\* two paths have matching ancestor TYPES (read in the claim's favour: only
\* positions that hold an ancestor in both paths, never a leaf, are compared).
C2_CommonByType ==
    pc = "sim_done" =>
        \A i, j \in 2..(Len(SimPaths) - 1) :
            i < j =>
              LET c == TypeCommonLoop(SimPaths[i], SimPaths[j], 2,
                                      Min(Len(SimPaths[i]), Len(SimPaths[j])) - 1, 1)
              IN SimMatrix[i][j] = Quot(c * c, Len(SimPaths[i]) * Len(SimPaths[j]))

\* C2 amended: common counts the tree nodes the two paths share (the root and
\* every further common ancestor), not positions of equal type.
C2_CommonByNode ==
    pc = "sim_done" =>
        \A i, j \in 2..(Len(SimPaths) - 1) :
            i < j =>
              LET c == Cardinality(Range(SimPaths[i]) \cap Range(SimPaths[j]))
              IN SimMatrix[i][j] = Quot(c * c, Len(SimPaths[i]) * Len(SimPaths[j]))

\* C2 witness: two leaves whose paths differ just below the root in nodes of the
\* same type, with the entry stored for them.
C2_Witness ==
    /\ pc = "sim_done"
    /\ \E i, j \in 2..(Len(SimPaths) - 1) :
          /\ i < j
          /\ Len(SimPaths[i]) >= 3 /\ Len(SimPaths[j]) >= 3
          /\ Neg(SimPaths[i], 2) # Neg(SimPaths[j], 2)
          /\ Neg(SimPaths[i], 2).type = Neg(SimPaths[j], 2).type
          /\ SimMatrix[i][j] = Quot(1, Len(SimPaths[i]) * Len(SimPaths[j]))

-----------------------------------------------------------------------------
(* DFG node remapping *)

RECURSIVE SortedOfSet(_)
SortedOfSet(S) ==
    IF S = {} THEN <<>>
    ELSE LET m == CHOOSE x \in S : \A y \in S : x <= y
         IN <<m>> \o SortedOfSet(S \ {m})

RECURSIVE Insert(_, _)
Insert(x, s) ==
    IF s = <<>> THEN <<x>>
    ELSE IF x <= Head(s) THEN <<x>> \o s
    ELSE <<Head(s)>> \o Insert(x, Tail(s))

RECURSIVE SortedOfSeq(_)
SortedOfSeq(s) == IF s = <<>> THEN <<>> ELSE Insert(Head(s), SortedOfSeq(Tail(s)))

\* np.concatenate([[left] + right for left, right in row.dfg_edges])
EdgeEndpoints(edges) == Flatten([e \in 1..Len(edges) |-> <<edges[e][1]>> \o edges[e][2]])

\* mutant of DfgNodes: sorted, but not deduplicated
DfgNodesNoSet(edges) ==
    IF Len(edges) > 0 THEN SortedOfSeq(EdgeEndpoints(edges)) ELSE <<>>

DfgNodes(edges) ==
    IF Len(edges) > 0 THEN SortedOfSet(Range(EdgeEndpoints(edges))) ELSE <<>>

\* dfg_node_to_idx = {k: i for i, k in enumerate(dfg_nodes)}; a later duplicate wins
DfgNodeToIdx(dfg_nodes, k) ==
    (CHOOSE i \in DOMAIN dfg_nodes :
        dfg_nodes[i] = k /\ \A j \in DOMAIN dfg_nodes : dfg_nodes[j] = k => j <= i) - 1

DfgNodeMask(dfg_node_code_token_idxs) ==
    str(START_TOK_ID_DFG) \o <<",">>
    \o join(",", [i \in 1..Len(dfg_node_code_token_idxs) |-> <<"1">>])
    \o <<",">> \o str(PAD_TOK_ID_DFG)

\* one row of map_dfg_node_code_token_idices (leaf indices are 0-based)
MapDfgRow(row) ==
    LET dfg_nodes == DfgNodes(row.dfg_edges)
        idxs == [i \in 1..Len(dfg_nodes) |-> row.ast_leaf_code_token_idxs[dfg_nodes[i] + 1]]
        edges == [e \in 1..Len(row.dfg_edges) |->
                    <<DfgNodeToIdx(dfg_nodes, row.dfg_edges[e][1]),
                      [r \in 1..Len(row.dfg_edges[e][2]) |->
                          DfgNodeToIdx(dfg_nodes, row.dfg_edges[e][2][r])]>>]
    IN [f \in DOMAIN row \cup {"dfg_edges", "dfg_node_code_token_idxs", "dfg_node_mask"} |->
          CASE f = "dfg_edges" -> edges
            [] f = "dfg_node_code_token_idxs" -> idxs
            [] f = "dfg_node_mask" -> DfgNodeMask(idxs)
            [] OTHER -> row[f]]

map_dfg_node_code_token_idices(d) == [i \in 1..Len(d) |-> MapDfgRow(d[i])]

\* the loader's parse of the dfg_node_mask column: the fields, and whether
\* list(map(int, x.split(','))) succeeds on them
MaskFields(x) == split(x, ",")
MaskParses(x) == \A i \in DOMAIN MaskFields(x) : IsIntText(MaskFields(x)[i])
parse_dfg_node_mask(x) == [i \in DOMAIN MaskFields(x) |-> int(MaskFields(x)[i])]

-----------------------------------------------------------------------------
(* Specification: map_dfg_node_code_token_idices on a one-sample chunk *)

\* target lists of one edge over leaves 0..n-1: none, one, or two ascending
TargetLists(n) ==
    {<<>>} \cup {<<t>> : t \in 0..(n - 1)}
    \cup {tu \in (0..(n - 1)) \X (0..(n - 1)) : tu[1] < tu[2]}

EdgeLists(n) ==
    UNION {[1..m -> (0..(n - 1)) \X TargetLists(n)] : m \in 0..MaxEdges}

\* token spans of n leaves laid out one after the other: every leaf one token
\* wide, or the leaves alternately two and one wide
RECURSIVE SpanLayout(_, _, _, _)
SpanLayout(n, wide, i, next) ==
    IF i > n THEN <<>>
    ELSE LET w == IF wide /\ i % 2 = 1 THEN 2 ELSE 1
         IN <<[t \in 1..w |-> next + t - 1]>> \o SpanLayout(n, wide, i + 1, next + w)

TokenSpans(n, wide) == SpanLayout(n, wide, 1, 0)

InitDfg ==
    /\ pc = "dfg_call"
    /\ \E n \in 1..MaxLeaves : \E edges \in EdgeLists(n) : \E wide \in BOOLEAN :
          data = <<[dfg_edges |-> edges, ast_leaf_code_token_idxs |-> TokenSpans(n, wide)]>>
    /\ arg = data
    /\ ret = {}
    /\ Idle

MapDfgNodeCodeTokenIdices ==
    /\ pc = "dfg_call"
    /\ data' = map_dfg_node_code_token_idices(data)
    /\ pc' = "dfg_done"
    /\ UNCHANGED <<arg, ret, failed_count, rows, start, num_rows_per_file, all_node_types,
                   global_max_rel_pos, files, chunk_data, it, batch, padding_value,
                   all_node_types_pkl>>

NextDfg == MapDfgNodeCodeTokenIdices

SpecDfg == InitDfg /\ [][NextDfg]_vars

\* the leaves that take part in an edge, and the rank of a leaf among them
DfgLeafSet(edges) ==
    {edges[e][1] : e \in DOMAIN edges}
    \cup UNION {Range(edges[e][2]) : e \in DOMAIN edges}
RankIn(S, x) == Cardinality({s \in S : s < x})

\* C3: with at least one edge, the i-th smallest participating leaf becomes node
\* i of [0..k): every edge is the original edge with each endpoint replaced by
\* its rank, node i carries the token span of the i-th smallest participating
\* leaf, and the mask reads 0, then k ones, then 2.
C3_DfgRemap ==
    (pc = "dfg_done" /\ Len(arg[1].dfg_edges) > 0) =>
        LET old == arg[1].dfg_edges
            new == data[1].dfg_edges
            S == DfgLeafSet(old)
            k == Cardinality(S)
            idxs == data[1].dfg_node_code_token_idxs
        IN /\ Len(new) = Len(old)
           /\ \A e \in DOMAIN old :
                 /\ new[e][1] = RankIn(S, old[e][1])
                 /\ Len(new[e][2]) = Len(old[e][2])
                 /\ \A r \in DOMAIN old[e][2] : new[e][2][r] = RankIn(S, old[e][2][r])
           /\ DfgLeafSet(new) = 0..(k - 1)
           /\ Len(idxs) = k
           /\ \A s \in S : idxs[RankIn(S, s) + 1] = arg[1].ast_leaf_code_token_idxs[s + 1]
           /\ MaskParses(data[1].dfg_node_mask)
           /\ parse_dfg_node_mask(data[1].dfg_node_mask)
                = <<START_TOK_ID_DFG>> \o [i \in 1..k |-> 1] \o <<PAD_TOK_ID_DFG>>

\* C3 witness: the example of the specification, leaves {0, 2} with the edge
\* (0, [2]), mapped to the edge (0, [1]) and the mask 0,1,1,2.
C3_Witness ==
    /\ pc = "dfg_done"
    /\ arg[1].dfg_edges = <<<<0, <<2>>>>>>
    /\ data[1].dfg_edges = <<<<0, <<1>>>>>>
    /\ data[1].dfg_node_mask = <<"0", ",", "1", ",", "1", ",", "2">>

\* C4: with no edge, the node list and the edge list are empty and the mask,
\* split on ',', is exactly the two entries 0 and 2, each of which parses as an
\* integer.
C4_EmptyDfgMask ==
    (pc = "dfg_done" /\ Len(arg[1].dfg_edges) = 0) =>
        /\ data[1].dfg_node_code_token_idxs = <<>>
        /\ data[1].dfg_edges = <<>>
        /\ MaskFields(data[1].dfg_node_mask) = <<str(START_TOK_ID_DFG), str(PAD_TOK_ID_DFG)>>
        /\ MaskParses(data[1].dfg_node_mask)

-----------------------------------------------------------------------------
(* Relative distances *)

\* mutant of compute_relative_distances: without the +1 offset
compute_relative_distances_no_offset(pos_ids_str, max_distance) ==
    LET fs == split(pos_ids_str, ",")
        pos_ids == Eager([i \in 1..Len(fs) |-> int(fs[i])])
    IN [i \in 1..Len(pos_ids) |->
          [j \in 1..Len(pos_ids) |-> Min(Abs(pos_ids[i] - pos_ids[j]), max_distance)]]

compute_relative_distances(pos_ids_str, max_distance) ==
    LET fs == split(pos_ids_str, ",")
        pos_ids == Eager([i \in 1..Len(fs) |-> int(fs[i])])
    IN [i \in 1..Len(pos_ids) |->
          [j \in 1..Len(pos_ids) |->
              LET raw_distance == Abs(pos_ids[i] - pos_ids[j]) + 1
              IN Min(raw_distance, max_distance)]]

\* position ids near 0 and on both sides of the clip
PosIdValues == {-1, 0, 1, 2, 126, 127, 300}

InitRel ==
    /\ pc = "rel_call"
    /\ \E n \in 1..MaxPosIds : \E ids \in [1..n -> PosIdValues] :
          arg = join(",", [i \in 1..n |-> str(ids[i])])
    /\ data = <<>>
    /\ ret = {}
    /\ Idle

ComputeRelativeDistances ==
    /\ pc = "rel_call"
    /\ ret' = compute_relative_distances(arg, DefaultMaxDistance)
    /\ pc' = "rel_done"
    /\ UNCHANGED <<arg, data, failed_count, rows, start, num_rows_per_file, all_node_types,
                   global_max_rel_pos, files, chunk_data, it, batch, padding_value,
                   all_node_types_pkl>>

NextRel == ComputeRelativeDistances

SpecRel == InitRel /\ [][NextRel]_vars

RelPosIds == LET fs == split(arg, ",") IN [i \in 1..Len(fs) |-> int(fs[i])]

\* C5: the result is the n x n matrix min(|pos_i - pos_j| + 1, 127): symmetric,
\* diagonal 1, every entry in [1, 127], and a larger absolute difference gives a
\* strictly larger entry unless the smaller one already is the clip value.
C5_RelativeDistances ==
    pc = "rel_done" =>
        LET p == RelPosIds
            n == Len(p)
        IN /\ Len(ret) = n
           /\ \A i \in 1..n :
                 /\ Len(ret[i]) = n
                 /\ ret[i][i] = 1
           /\ \A i, j \in 1..n :
                 /\ ret[i][j] = Min(Abs(p[i] - p[j]) + 1, DefaultMaxDistance)
                 /\ ret[i][j] = ret[j][i]
                 /\ ret[i][j] >= 1 /\ ret[i][j] <= DefaultMaxDistance
           /\ \A i, j, k, l \in 1..n :
                 Abs(p[i] - p[j]) < Abs(p[k] - p[l]) =>
                    \/ ret[i][j] < ret[k][l]
                    \/ ret[i][j] = DefaultMaxDistance /\ ret[k][l] = DefaultMaxDistance

\* C5 witness: a result with an entry cut down to the clip value and an entry
\* strictly between the diagonal value and the clip.
C5_Witness ==
    /\ pc = "rel_done"
    /\ \E i, j \in DOMAIN ret :
          Abs(RelPosIds[i] - RelPosIds[j]) + 1 > DefaultMaxDistance
          /\ ret[i][j] = DefaultMaxDistance
    /\ \E i, j \in DOMAIN ret : ret[i][j] > 1 /\ ret[i][j] < DefaultMaxDistance

-----------------------------------------------------------------------------
(* Upper triangle of a stored similarity matrix *)

\* s[k:] and s[:-1] of a Python sequence (k is 0-based)
DropFirst(s, k) == IF k >= Len(s) THEN <<>> ELSE SubSeq(s, k + 1, Len(s))
DropLast(s) == IF s = <<>> THEN <<>> ELSE SubSeq(s, 1, Len(s) - 1)

RECURSIVE UpperLoop(_, _)
UpperLoop(rs, i) ==
    IF i > Len(rs) THEN <<>>
    ELSE join(",", DropFirst(split(rs[i], ","), i)) \o <<";">> \o UpperLoop(rs, i + 1)

\* mutant of upper_triangle: the slice keeps the diagonal (row.split(',')[i:])
RECURSIVE UpperLoopDiag(_, _)
UpperLoopDiag(rs, i) ==
    IF i > Len(rs) THEN <<>>
    ELSE join(",", DropFirst(split(rs[i], ","), i - 1)) \o <<";">> \o UpperLoopDiag(rs, i + 1)

upper_triangle_with_diag(ll_sims) == DropLast(UpperLoopDiag(DropLast(split(ll_sims, ";")), 1))

upper_triangle(ll_sims) == DropLast(UpperLoop(DropLast(split(ll_sims, ";")), 1))

\* off-diagonal values of the matrices the reduction is tried on
SimValues == {<<0, 1>>, <<1, 4>>, <<1, 1>>}

\* symmetric matrices with unit diagonal, built from the entries above the diagonal
SymmetricUnitOf(n) ==
    LET pairs == {ij \in (1..n) \X (1..n) : ij[1] < ij[2]}
    IN {[i \in 1..n |-> [j \in 1..n |->
            IF i = j THEN <<1, 1>>
            ELSE IF i < j THEN u[<<i, j>>] ELSE u[<<j, i>>]]] : u \in [pairs -> SimValues]}

InitTri ==
    /\ pc = "tri_call"
    /\ \E n \in 1..MaxSide : \E m \in SymmetricUnitOf(n) : arg = ll_sims_str(m)
    /\ data = <<>>
    /\ ret = {}
    /\ Idle

UpperTriangle ==
    /\ pc = "tri_call"
    /\ ret' = upper_triangle(arg)
    /\ pc' = "tri_done"
    /\ UNCHANGED <<arg, data, failed_count, rows, start, num_rows_per_file, all_node_types,
                   global_max_rel_pos, files, chunk_data, it, batch, padding_value,
                   all_node_types_pkl>>

NextTri == UpperTriangle

SpecTri == InitTri /\ [][NextTri]_vars

\* the rows of a reduced string (the empty string holds no row), and the full
\* matrix rebuilt from them under symmetry and unit diagonal
ReducedRows(s) ==
    IF s = <<>> THEN <<>>
    ELSE LET rs == split(s, ";") IN [i \in 1..Len(rs) |-> split(rs[i], ",")]

Rebuild(s) ==
    LET up == ReducedRows(s)
        n == Len(up) + 1
    IN [i \in 1..n |-> [j \in 1..n |->
          IF i = j THEN <<1, 1>>
          ELSE IF i < j THEN float(up[i][j - i]) ELSE float(up[j][i - j])]]

\* C9: for a symmetric n x n matrix with unit diagonal, the reduced string has
\* the rows 0 .. n-2, row i holding exactly the entries (i, i+1) .. (i, n-1) in
\* order, and rebuilding under symmetry and unit diagonal gives the matrix back.
C9_UpperTriangle ==
    pc = "tri_done" =>
        LET m == parse_ll_sims(arg)
            n == Len(m)
            up == ReducedRows(ret)
        IN /\ Len(up) = n - 1
           /\ \A i \in 1..(n - 1) :
                 /\ Len(up[i]) = n - i
                 /\ \A k \in 1..(n - i) : up[i][k] = str(m[i][i + k])
           /\ Rebuild(ret) = m

\* C9 witness: a reduced matrix of side at least 3 whose kept entries are not
\* all equal.
C9_Witness ==
    /\ pc = "tri_done"
    /\ Len(ReducedRows(ret)) >= 2
    /\ ReducedRows(ret)[1][1] # ReducedRows(ret)[1][2]
    /\ ReducedRows(ret)[1][2] # ReducedRows(ret)[2][1]

-----------------------------------------------------------------------------
(* preprocess: cleaning and comment stripping with skip-and-count *)

\* Source texts are short character sequences: an identifier character, a
\* blank, an opening bracket, the SentencePiece underline and a character the
\* tokenizer has no single-character token for (written by their code points).
CodeChars == {"x", " ", "(", "U+2581", "U+00E9"}
TokenizerChars == {"x", " ", "(", "_"}

RECURSIVE LStrip(_)
LStrip(c) == IF c # <<>> /\ Head(c) = " " THEN LStrip(Tail(c)) ELSE c

RECURSIVE RStrip(_)
RStrip(c) == IF c # <<>> /\ c[Len(c)] = " " THEN RStrip(DropLast(c)) ELSE c

strip(c) == RStrip(LStrip(c))

\* step 1 and step 2 of the loop body
CleanCode(code) ==
    LET step1 == [i \in DOMAIN strip(code) |->
                    IF strip(code)[i] = "U+2581" THEN "_" ELSE strip(code)[i]]
    IN SelectSeq(step1, LAMBDA c : c \in TokenizerChars)

\* remove_comments_and_docstrings: tokenize.generate_tokens raises on a bracket
\* that is never closed (EOF in multi-line statement); text without comments
\* or docstrings comes back unchanged
StripRaises(code) == \E i \in DOMAIN code : code[i] = "("
remove_comments_and_docstrings(code) == code

InitPre ==
    /\ pc = "pre_loop"
    /\ \E n \in 0..MaxPreRows :
          data \in [1..n -> [text : {<<" ", "d">>},
                             code : UNION {[1..m -> CodeChars] : m \in 1..2}]]
    /\ arg = data
    /\ ret = {}
    /\ Idle

\* mutant of PreprocessRow: the failure is counted but the row is kept
PreprocessRowKeepsFailed ==
    /\ pc = "pre_loop"
    /\ it < Len(data)
    /\ LET row == data[it + 1]
           code == CleanCode(row.code)
       IN IF StripRaises(code)
          THEN /\ failed_count' = failed_count + 1
               /\ rows' = Append(rows, <<strip(row.text), code>>)
          ELSE /\ rows' = Append(rows, <<strip(row.text), remove_comments_and_docstrings(code)>>)
               /\ UNCHANGED failed_count
    /\ it' = it + 1
    /\ UNCHANGED <<pc, arg, data, ret, start, num_rows_per_file, all_node_types,
                   global_max_rel_pos, files, chunk_data, batch, padding_value,
                   all_node_types_pkl>>

\* one pass of the loop body of preprocess
PreprocessRow ==
    /\ pc = "pre_loop"
    /\ it < Len(data)
    /\ LET row == data[it + 1]
           code == CleanCode(row.code)
       IN IF StripRaises(code)
          THEN /\ failed_count' = failed_count + 1
               /\ UNCHANGED rows
          ELSE /\ rows' = Append(rows, <<strip(row.text), remove_comments_and_docstrings(code)>>)
               /\ UNCHANGED failed_count
    /\ it' = it + 1
    /\ UNCHANGED <<pc, arg, data, ret, start, num_rows_per_file, all_node_types,
                   global_max_rel_pos, files, chunk_data, batch, padding_value,
                   all_node_types_pkl>>

\* the loop is exhausted: build the DataFrame and return it
PreprocessReturn ==
    /\ pc = "pre_loop"
    /\ it = Len(data)
    /\ ret' = rows
    /\ pc' = "pre_done"
    /\ UNCHANGED <<arg, data, failed_count, rows, start, num_rows_per_file, all_node_types,
                   global_max_rel_pos, files, chunk_data, it, batch, padding_value,
                   all_node_types_pkl>>

NextPre == PreprocessRow \/ PreprocessReturn

SpecPre == InitPre /\ [][NextPre]_vars

\* the input rows whose stripping succeeds, in input order, as output rows
RECURSIVE Survivors(_)
Survivors(d) ==
    IF d = <<>> THEN <<>>
    ELSE (IF StripRaises(CleanCode(Head(d).code)) THEN <<>>
          ELSE <<<<strip(Head(d).text), remove_comments_and_docstrings(CleanCode(Head(d).code))>>>>)
         \o Survivors(Tail(d))

\* C8: a sample whose stripping raises is skipped and counted and never stops
\* the run: until preprocess has returned it can take a step, and what it
\* returns is exactly the samples whose stripping succeeded, in input order,
\* with failed_count + output rows = input rows.
C8_SkipAndCount ==
    /\ pc = "pre_loop" => ENABLED NextPre
    /\ pc \in {"pre_loop", "pre_done"} =>
          /\ rows = Survivors(SubSeq(arg, 1, it))
          /\ failed_count + Len(rows) = it
    /\ pc = "pre_done" =>
          /\ ret = Survivors(arg)
          /\ failed_count + Len(ret) = Len(arg)

\* C8 witness: preprocess has returned after skipping a sample whose stripping
\* raised and keeping a later one.
C8_Witness ==
    /\ pc = "pre_done"
    /\ Len(arg) = 2
    /\ StripRaises(CleanCode(arg[1].code))
    /\ failed_count = 1
    /\ Len(ret) = 1

-----------------------------------------------------------------------------
(* Batch collation *)

Rows(m) == Len(m)
Cols(m) == Len(m[1])
Fill(r, c, v) == [i \in 1..r |-> [j \in 1..c |-> v]]

\* mutant of Transpose: the block is used as it is
TransposeNot(m) == m

Transpose(m) == [j \in 1..Cols(m) |-> [i \in 1..Rows(m) |-> m[i][j]]]

\* F.pad(t, (0, n), value = v) of a 1-d tensor
PadRight(t, n, v) == t \o [i \in 1..n |-> v]

\* pad_2d_tensors with padding_side = 'right'
pad_2d_tensors(tensor_list, pv) ==
    LET max_rows == SeqMax([b \in DOMAIN tensor_list |-> Rows(tensor_list[b])])
        max_cols == SeqMax([b \in DOMAIN tensor_list |-> Cols(tensor_list[b])])
    IN [b \in DOMAIN tensor_list |->
          LET t == tensor_list[b]
              rows_to_pad == max_rows - Rows(t)
              cols_to_pad == max_cols - Cols(t)
          IN [i \in 1..Rows(t) |-> PadRight(t[i], cols_to_pad, pv)]
             \o Fill(rows_to_pad, max_cols, pv)]

\* pad_sequence(batch_first = True) of 1-d tensors; on the equally shaped 2-d
\* tensors pad_2d_tensors returns it only stacks
pad_sequence(tensor_list, pv) ==
    LET max_len == SeqMax([b \in DOMAIN tensor_list |-> Len(tensor_list[b])])
    IN [b \in DOMAIN tensor_list |->
          PadRight(tensor_list[b], max_len - Len(tensor_list[b]), pv)]
stack(tensor_list) == tensor_list

\* PAD_TOK_ID_AST = metadata['num_ast_node_types']: the node types and the two
\* sentinel types
PAD_TOK_ID_AST == Cardinality(NodeTypes) + 2

\* mutant of PadLen: the leaf paths are left out
PadLenNoPaths(dfg_node_mask, lr_paths_len) == Len(dfg_node_mask[1])

PadLen(dfg_node_mask, lr_paths_len) == Len(dfg_node_mask[1]) + Len(lr_paths_len[1])

pad_labels_loss_mask(batch_dict) ==
    LET pad_len == PadLen(batch_dict.dfg_node_mask, batch_dict.lr_paths_len)
    IN [batch_dict EXCEPT
          !.labels = [b \in DOMAIN @ |-> PadRight(@[b], pad_len, 0)],
          !.loss_mask = [b \in DOMAIN @ |-> PadRight(@[b], pad_len, 0)]]

\* torch.cat of batched matrices along dim 1 (rows) and dim 2 (columns)
CatRows(x, y, z) == [b \in DOMAIN x |-> x[b] \o y[b] \o z[b]]
CatCols(x, y, z) == [b \in DOMAIN x |-> [i \in DOMAIN x[b] |-> x[b][i] \o y[b][i] \o z[b][i]]]

ComposeAttention(attn_code_tokens, attn_ast_leaves, attn_dfg_edges, attn_code_ast, attn_code_dfg) ==
    LET attn_code_ast_T == [b \in DOMAIN attn_code_ast |-> Transpose(attn_code_ast[b])]
        attn_code_dfg_T == [b \in DOMAIN attn_code_dfg |-> Transpose(attn_code_dfg[b])]
        attn_ast_dfg == [b \in DOMAIN attn_ast_leaves |->
                            Fill(Rows(attn_ast_leaves[1]), Cols(attn_dfg_edges[1]), 0)]
        attn_ast_dfg_T == [b \in DOMAIN attn_ast_dfg |-> Transpose(attn_ast_dfg[b])]
        first_col_matrix == CatRows(attn_code_tokens, attn_code_ast_T, attn_code_dfg_T)
        second_col_matrix == CatRows(attn_code_ast, attn_ast_leaves, attn_ast_dfg_T)
        third_col_matrix == CatRows(attn_code_dfg, attn_ast_dfg, attn_dfg_edges)
        attn_mask == CatCols(first_col_matrix, second_col_matrix, third_col_matrix)
    IN [b \in DOMAIN attn_mask |-> <<attn_mask[b]>>]    \* unsqueeze(1)

AttnKeys == {"attn_code_tokens", "attn_ast_leaves", "attn_dfg_edges", "attn_code_ast",
             "attn_code_dfg"}
OneDimKeys == {"code_token_ids", "code_token_pos_ids", "dfg_node_mask", "lr_paths_len",
               "labels", "loss_mask"}

collate_fn(samples, pad) ==
    LET col(key) == [b \in DOMAIN samples |-> samples[b][key]]
        padded == [key \in DOMAIN samples[1] |->
                     IF key \in OneDimKeys
                     THEN pad_sequence(col(key), IF key # "dfg_node_mask" THEN pad
                                                 ELSE PAD_TOK_ID_DFG)
                     ELSE stack(pad_2d_tensors(col(key), IF key = "lr_paths_types"
                                                         THEN PAD_TOK_ID_AST ELSE pad))]
        batch_dict == pad_labels_loss_mask(padded)
        attention_mask == ComposeAttention(batch_dict.attn_code_tokens,
                                           batch_dict.attn_ast_leaves,
                                           batch_dict.attn_dfg_edges,
                                           batch_dict.attn_code_ast,
                                           batch_dict.attn_code_dfg)
    IN [key \in (DOMAIN batch_dict \ AttnKeys) \cup {"attention_mask"} |->
          IF key = "attention_mask" THEN attention_mask ELSE batch_dict[key]]

-----------------------------------------------------------------------------
(* The samples a batch is made of *)

\* pad_inner_lists with padding_side = 'right'
pad_inner_lists(list_of_lists, pv) == pad_sequence(list_of_lists, pv)

\* an AST whose root has nl leaf children, and its stored columns
StarTree(nl) == [n |-> nl + 1, parent |-> [i \in 1..(nl + 1) |-> IF i = 1 THEN 0 ELSE 1],
                 type |-> [i \in 1..(nl + 1) |-> IF i = 1 THEN "a" ELSE "b"]]
StarRow(nl) == AddPathsRow([ast |-> StarTree(nl), ast_leaves |-> AstLeaves(StarTree(nl))])

\* index of a node type in the sorted vocabulary
TypeIndex(t) ==
    CASE t = END_AST -> 0 [] t = START_AST -> 1 [] t = "a" -> 2 [] t = "b" -> 3

\* entry (r, c) of attention block blk of a sample: a value that names its place
Tag(blk, r, c) == 100 * blk + 10 * r + c
Block(blk, r, c) == [i \in 1..r |-> [j \in 1..c |-> Tag(blk, i, j)]]

\* __getitem__ of a stored sample with T code tokens, attention blocks over T
\* tokens, L leaf positions and D DFG positions, k DFG nodes and nl AST leaves
GetItem(T, L, D, k, nl) ==
    LET code_tokens == [i \in 1..T |-> 10 + i]
        pos_ids == [i \in 1..T |-> i - 1]
        star == StarRow(nl)
    IN [code_token_ids |-> code_tokens,
        code_token_pos_ids |-> pos_ids,
        code_token_rel_pos_ids |->
            compute_relative_distances(join(",", [i \in 1..T |-> str(pos_ids[i])]),
                                       DefaultMaxDistance),
        ll_sims |-> parse_ll_sims(star.ll_sims),
        lr_paths_types |->
            pad_inner_lists([p \in DOMAIN star.lr_paths_types |->
                                [n \in DOMAIN star.lr_paths_types[p] |->
                                    TypeIndex(star.lr_paths_types[p][n])]],
                            PAD_TOK_ID_AST),
        lr_paths_len |-> [p \in DOMAIN star.lr_paths_types |-> Len(star.lr_paths_types[p])],
        dfg_node_mask |-> <<START_TOK_ID_DFG>> \o [i \in 1..k |-> 1] \o <<PAD_TOK_ID_DFG>>,
        attn_code_tokens |-> Block(1, T, T),
        attn_ast_leaves |-> Block(2, L, L),
        attn_dfg_edges |-> Block(3, D, D),
        attn_code_ast |-> Block(4, T, L),
        attn_code_dfg |-> Block(5, T, D),
        labels |-> code_tokens,
        loss_mask |-> [i \in 1..T |-> 1]]

\* tokenizer.eos_token_id: 0, or an id that is no mask value
EosTokenIds == {0, 7}

Collate ==
    /\ pc = "collate_call"
    /\ ret' = collate_fn(batch, padding_value)
    /\ pc' = "collate_done"
    /\ UNCHANGED <<arg, data, failed_count, rows, start, num_rows_per_file, all_node_types,
                   global_max_rel_pos, files, chunk_data, it, batch, padding_value,
                   all_node_types_pkl>>

NextCollate == Collate

IdleCollate ==
    /\ failed_count = 0 /\ rows = <<>> /\ start = 0 /\ num_rows_per_file = 0
    /\ all_node_types = {} /\ global_max_rel_pos = 0 /\ files = <<>> /\ it = 0
    /\ chunk_data = <<>> /\ data = <<>> /\ ret = {} /\ all_node_types_pkl = <<>>

\* batches whose samples differ in the shapes of their attention blocks
InitCollate ==
    /\ pc = "collate_call"
    /\ \E B \in 1..MaxBatch : \E shape \in [1..B -> (1..MaxDim) \X (1..MaxDim) \X (1..MaxDim)] :
          /\ arg = shape
          /\ batch = [b \in 1..B |-> GetItem(shape[b][1], shape[b][2], shape[b][3], 1, 1)]
    /\ padding_value \in EosTokenIds
    /\ IdleCollate

SpecCollate == InitCollate /\ [][NextCollate]_vars

\* batches whose samples differ in their numbers of tokens, DFG nodes and leaves
InitLabels ==
    /\ pc = "collate_call"
    /\ \E B \in 1..MaxBatch : \E shape \in [1..B -> (1..MaxDim) \X (1..MaxDim) \X (1..MaxDim)] :
          /\ arg = shape
          /\ batch = [b \in 1..B |-> GetItem(shape[b][1], 1, 1, shape[b][2], shape[b][3])]
    /\ padding_value \in EosTokenIds
    /\ IdleCollate

SpecLabels == InitLabels /\ [][NextCollate]_vars

\* the largest of a component of the shapes the batch was built from
MaxOf(c) == SeqMax([b \in DOMAIN arg |-> arg[b][c]])

\* entry (i, j) of a block after padding to the batch
PadAt(m, i, j) == IF i <= Rows(m) /\ j <= Cols(m) THEN m[i][j] ELSE padding_value

\* what the composed mask of sample b must hold at (r, c), the axes ordered
\* tokens, leaves, DFG nodes
ExpectedAttention(b, r, c) ==
    LET mT == MaxOf(1)
        mL == MaxOf(2)
        sm == batch[b]
        R == IF r <= mT THEN "tok" ELSE IF r <= mT + mL THEN "leaf" ELSE "dfg"
        C == IF c <= mT THEN "tok" ELSE IF c <= mT + mL THEN "leaf" ELSE "dfg"
        ri == IF R = "tok" THEN r ELSE IF R = "leaf" THEN r - mT ELSE r - mT - mL
        ci == IF C = "tok" THEN c ELSE IF C = "leaf" THEN c - mT ELSE c - mT - mL
    IN CASE R = "tok" /\ C = "tok" -> PadAt(sm.attn_code_tokens, ri, ci)
         [] R = "leaf" /\ C = "leaf" -> PadAt(sm.attn_ast_leaves, ri, ci)
         [] R = "dfg" /\ C = "dfg" -> PadAt(sm.attn_dfg_edges, ri, ci)
         [] R = "tok" /\ C = "leaf" -> PadAt(sm.attn_code_ast, ri, ci)
         [] R = "leaf" /\ C = "tok" -> PadAt(sm.attn_code_ast, ci, ri)
         [] R = "tok" /\ C = "dfg" -> PadAt(sm.attn_code_dfg, ri, ci)
         [] R = "dfg" /\ C = "tok" -> PadAt(sm.attn_code_dfg, ci, ri)
         [] OTHER -> 0

\* C6: attention_mask has shape (B, 1, S, S) with S = maxT + maxL + maxD and is
\* the block matrix over [tokens, leaves, DFG nodes]: the three diagonal blocks,
\* attn_code_ast and attn_code_dfg with their transposes, zeros between leaves
\* and DFG nodes (each block padded to the batch); the five raw keys are gone.
C6_AttentionLayout ==
    pc = "collate_done" =>
        LET S == MaxOf(1) + MaxOf(2) + MaxOf(3)
            am == ret.attention_mask
        IN /\ DOMAIN ret \cap AttnKeys = {}
           /\ Len(am) = Len(batch)
           /\ \A b \in DOMAIN batch :
                 /\ Len(am[b]) = 1
                 /\ Len(am[b][1]) = S
                 /\ \A r \in 1..S : Len(am[b][1][r]) = S
                 /\ \A r, c \in 1..S : am[b][1][r][c] = ExpectedAttention(b, r, c)

\* C6 witness: a collated batch of two samples whose blocks differ in every
\* dimension, so that every block is padded for one of them.
C6_Witness ==
    /\ pc = "collate_done"
    /\ Len(batch) = 2
    /\ arg[1] = <<1, 2, 1>> /\ arg[2] = <<2, 1, 2>>
    /\ Len(ret.attention_mask[1][1]) = 6

\* C7 as written: every labels and loss_mask row ends in zeros, the extension
\* being as long as the DFG nodes of the batch plus its longest leaf-root path.
C7_ExtensionAsClaimed ==
    pc = "collate_done" =>
        LET claimed == MaxOf(2) + SeqMax([b \in DOMAIN batch |-> SeqMax(batch[b].lr_paths_len)])
        IN \A b \in DOMAIN batch :
              /\ Len(ret.labels[b]) = MaxOf(1) + claimed
              /\ Len(ret.loss_mask[b]) = MaxOf(1) + claimed

\* C7 amended: the zero extension is as long as the padded dfg_node_mask (the
\* most DFG nodes of a sample, plus the two sentinels) plus the padded
\* lr_paths_len (the most leaves of a sample, plus the two sentinel paths); it
\* follows the row as padded to the longest token sequence with padding_value.
C7_ZeroExtension ==
    pc = "collate_done" =>
        LET mT == MaxOf(1)
            pad_len == (MaxOf(2) + 2) + (MaxOf(3) + 2)
            Padded(row, orig, fillv) ==
                /\ Len(row) = mT + pad_len
                /\ \A i \in 1..Len(orig) : row[i] = orig[i]
                /\ \A i \in (Len(orig) + 1)..mT : row[i] = fillv
                /\ \A i \in (mT + 1)..(mT + pad_len) : row[i] = 0
        IN \A b \in DOMAIN batch :
              /\ Padded(ret.labels[b], batch[b].labels, padding_value)
              /\ Padded(ret.loss_mask[b], batch[b].loss_mask, padding_value)

\* C7 witness: a collated batch of two samples that differ in tokens, DFG nodes
\* and leaves, with an eos id other than 0.
C7_Witness ==
    /\ pc = "collate_done"
    /\ Len(batch) = 2
    /\ arg[1] = <<1, 2, 1>> /\ arg[2] = <<2, 1, 2>>
    /\ padding_value # 0
    /\ Len(ret.labels[1]) = 10

-----------------------------------------------------------------------------
(* store_preprocessed_data: the chunked pass over the dataset *)

\* a row with the columns of new added or replaced
With(row, new) ==
    [f \in DOMAIN row \cup DOMAIN new |-> IF f \in DOMAIN new THEN new[f] ELSE row[f]]

\* str of a Python list, given the texts of its elements; repr of a str
StrOfList(elems) == <<"[">> \o join(", ", elems) \o <<"]">>
repr(t) == <<"'", t, "'">>
StrOfIntLists(m) ==
    StrOfList([i \in DOMAIN m |-> StrOfList([j \in DOMAIN m[i] |-> str(m[i][j])])])
StrOfStrLists(m) ==
    StrOfList([i \in DOMAIN m |-> StrOfList([j \in DOMAIN m[i] |-> repr(m[i][j])])])

\* tokenizer.bos_token_id: the tokenizer's bos and eos are one token
bos_token_id(eos) == eos

WithSpecial(x, eos) == str(bos_token_id(eos)) \o <<",">> \o x \o <<",">> \o str(eos)
PosIdsOf(x) == join(",", [i \in 1..Len(split(x, ",")) |-> str(i - 1)])

\* mutant of AddSpecialRow: the DFG edges are left as map_dfg_node_code_token_idices
\* wrote them
AddSpecialRowEdgesKept(row, eos) ==
    LET code == WithSpecial(row.code_tokens, eos)
        text == WithSpecial(row.text_tokens, eos)
        shift(spans) == [i \in DOMAIN spans |-> [j \in DOMAIN spans[i] |-> spans[i][j] + 1]]
    IN With(row, [code_tokens |-> code,
                  code_tokens_pos_ids |-> PosIdsOf(code),
                  text_tokens |-> text,
                  text_tokens_pos_ids |-> PosIdsOf(text),
                  ast_leaf_code_token_idxs |-> shift(row.ast_leaf_code_token_idxs),
                  dfg_node_code_token_idxs |-> shift(row.dfg_node_code_token_idxs)])

AddSpecialRow(row, eos) ==
    LET code == WithSpecial(row.code_tokens, eos)
        text == WithSpecial(row.text_tokens, eos)
        shift(spans) == [i \in DOMAIN spans |-> [j \in DOMAIN spans[i] |-> spans[i][j] + 1]]
    IN With(row, [code_tokens |-> code,
                  code_tokens_pos_ids |-> PosIdsOf(code),
                  text_tokens |-> text,
                  text_tokens_pos_ids |-> PosIdsOf(text),
                  ast_leaf_code_token_idxs |-> shift(row.ast_leaf_code_token_idxs),
                  dfg_node_code_token_idxs |-> shift(row.dfg_node_code_token_idxs),
                  dfg_edges |-> [e \in DOMAIN row.dfg_edges |->
                                    <<row.dfg_edges[e][1] + 1,
                                      [r \in DOMAIN row.dfg_edges[e][2] |->
                                          row.dfg_edges[e][2][r] + 1]>>]])

add_special_tokens(d, eos) == [i \in DOMAIN d |-> AddSpecialRow(d[i], eos)]

\* attn_mask_builder.compute_attention_masks: adds the mask columns of the
\* task variant (its module is not among the sources) and leaves the rows and
\* their other columns as they are
compute_attention_masks(d) == d

AddRelPosRow(row) ==
    With(row, [code_tokens_rel_pos_ids |->
                   compute_relative_distances(row.code_tokens_pos_ids, DefaultMaxDistance),
               text_tokens_rel_pos_ids |->
                   compute_relative_distances(row.text_tokens_pos_ids, DefaultMaxDistance)])

\* max([row[0][-1] for row in chunk_data['code_tokens_rel_pos_ids']])
ChunkMaxRelPos(d) ==
    SeqMax([i \in DOMAIN d |-> Neg(d[i].code_tokens_rel_pos_ids[1], 1)])

\* mutant of MergeMaxRelPos: the last chunk's value is kept
MergeMaxRelPosLast(global, chunk) == chunk

MergeMaxRelPos(global, chunk) == Max(global, chunk)

\* the columns written to the chunk file, the nested lists as their str
PersistRow(row) ==
    [code_tokens |-> row.code_tokens,
     code_tokens_rel_pos_ids |-> StrOfIntLists(row.code_tokens_rel_pos_ids),
     lr_paths_types |-> StrOfStrLists(row.lr_paths_types),
     lr_paths_len |-> row.lr_paths_len,
     ll_sims |-> row.ll_sims,
     dfg_node_mask |-> row.dfg_node_mask]

\* the body of the loop over chunks, for the chunk that starts at row s
ProcessChunk(d, s, n, eos) ==
    LET chunk0 == SubSeq(d, s + 1, Min(s + n, Len(d)))
        paths == add_ast_lr_paths_and_ll_sim(chunk0)
        chunk1 == map_dfg_node_code_token_idices(paths.data)
        chunk2 == add_special_tokens(chunk1, eos)
        chunk3 == compute_attention_masks(chunk2)
        chunk4 == [i \in DOMAIN chunk3 |-> AddRelPosRow(chunk3[i])]
    IN [chunk_node_types |-> paths.all_node_types,
        chunk_max_rel_pos |-> ChunkMaxRelPos(chunk4),
        chunk_data |-> chunk4,
        file |-> [i \in DOMAIN chunk4 |-> PersistRow(chunk4[i])]]

-----------------------------------------------------------------------------
(* convert_node_types_to_indices: the second pass over the chunk files *)

\* max of a set of integers, with the start value of the running maximum
SetMaxOr(S, init) == CHOOSE m \in S \cup {init} : \A x \in S \cup {init} : x <= m

\* mutant of UpdateNodeTypes: the types of the last chunk replace the set
UpdateNodeTypesLast(all, chunk) == chunk

\* all_node_types.update(chunk_node_types)
UpdateNodeTypes(all, chunk) == all \cup chunk

\* the node types of the model in the order of Python's string comparison
\* ('<' sorts before the letters, "<E" before "<S")
TypeOrder == <<END_AST, START_AST, "a", "b">>

\* sorted(list(all_node_types))
sorted_types(types) == SelectSeq(TypeOrder, LAMBDA t : t \in types)

\* node_type_to_idx = {t: i for i, t in enumerate(all_node_types)}
HasKey(vocab, t) == \E i \in DOMAIN vocab : vocab[i] = t
node_type_to_idx(vocab, t) == (CHOOSE i \in DOMAIN vocab : vocab[i] = t) - 1

\* s.split('], '): the fields between the places where "]" is followed by ", "
SplitBrackets(s) ==
    LET P == SelectSeq([i \in DOMAIN s |-> i],
                       LAMBDA i : s[i] = "]" /\ i < Len(s) /\ s[i + 1] = ", ")
        from(k) == IF k = 1 THEN 1 ELSE P[k - 1] + 2
        to(k) == IF k = Len(P) + 1 THEN Len(s) ELSE P[k] - 1
    IN Eager([k \in 1..(Len(P) + 1) |-> SubSeq(s, from(k), to(k))])

\* parse_list_of_lists(s, type_=str): the texts between the quotes; the node
\* types of the model hold no backslash, so the two replace calls keep them
parse_list_of_lists(s) ==
    LET list_of_lists == SplitBrackets(SubSeq(s, 2, Len(s) - 2))
    IN [x \in DOMAIN list_of_lists |->
          LET ts == split(DropFirst(list_of_lists[x], 1), ", ")
          IN [t \in DOMAIN ts |-> SubSeq(ts[t], 2, Len(ts[t]) - 1)]]

\* ast.literal_eval of the str of a list of lists of integers
literal_eval(s) ==
    LET list_of_lists == SplitBrackets(SubSeq(s, 2, Len(s) - 2))
    IN [x \in DOMAIN list_of_lists |->
          LET ts == split(DropFirst(list_of_lists[x], 1), ", ")
          IN [t \in DOMAIN ts |-> int(ts[t])]]

\* the node type a parsed text names: the texts of the model are one token
TypeOf(text) == text[1]

\* whether the lookup of every node type of the row succeeds (no KeyError)
RowHasKeys(vocab, row) ==
    LET paths == parse_list_of_lists(row.lr_paths_types)
    IN \A x \in DOMAIN paths : \A t \in DOMAIN paths[x] : HasKey(vocab, TypeOf(paths[x][t]))

\* the row with lr_paths_types rewritten to the str of the index lists
ConvertRow(vocab, row) ==
    LET paths == parse_list_of_lists(row.lr_paths_types)
    IN With(row, [lr_paths_types |->
                     StrOfIntLists([x \in DOMAIN paths |->
                         [t \in DOMAIN paths[x] |->
                             node_type_to_idx(vocab, TypeOf(paths[x][t]))]])])

\* max([len(sublist) for sublist in row]) over the rows of a rewritten chunk
LocalMaxAstDepth(chunk) ==
    SeqMax([i \in DOMAIN chunk |->
               LET row == literal_eval(chunk[i].lr_paths_types)
               IN SeqMax([x \in DOMAIN row |-> Len(row[x])])])

\* convert_node_types_to_indices over the chunk files of save_dir: the pickled
\* vocabulary, the rewritten files and the largest path length; a file with a
\* node type that has no index raises and is left as it was
convert_node_types_to_indices(fs, types) ==
    LET vocab == sorted_types(types)
        ok(s) == \A i \in DOMAIN fs[s] : RowHasKeys(vocab, fs[s][i])
        written == [s \in DOMAIN fs |->
                      IF ok(s) THEN [i \in DOMAIN fs[s] |-> ConvertRow(vocab, fs[s][i])]
                      ELSE fs[s]]
    IN [all_node_types |-> vocab,
        raised |-> \E s \in DOMAIN fs : ~ok(s),
        files |-> written,
        global_max_ast_depth |->
            IF \A s \in DOMAIN fs : ok(s)
            THEN SetMaxOr({LocalMaxAstDepth(written[s]) : s \in DOMAIN fs}, -1)
            ELSE -1]

-----------------------------------------------------------------------------
(* Specification: store_preprocessed_data on small datasets *)

CodeTokens(n) == join(",", [i \in 1..n |-> str(10 + i)])

\* a root with two leaves and one edge; a deeper tree with three leaves, two
\* node types and two edges; a single-node tree without edges; a root with one
\* leaf whose code is long enough for the distance clip
StoreSamples ==
    LET t1 == StarTree(2)
        t2 == [n |-> 5, parent |-> <<0, 1, 2, 2, 1>>, type |-> <<"a", "b", "a", "b", "b">>]
        t3 == [n |-> 1, parent |-> <<0>>, type |-> <<"b">>]
        t4 == StarTree(1)
        row(t, edges, spans, ncode) ==
            [text_tokens |-> CodeTokens(1), code_tokens |-> CodeTokens(ncode),
             ast |-> t, ast_leaves |-> AstLeaves(t), dfg_edges |-> edges,
             ast_leaf_code_token_idxs |-> spans]
    IN {row(t1, <<<<0, <<1>>>>>>, TokenSpans(2, FALSE), 2),
        row(t2, <<<<0, <<2>>>>, <<2, <<0>>>>>>, TokenSpans(3, TRUE), 4),
        row(t3, <<>>, TokenSpans(1, FALSE), 1),
        row(t4, <<<<0, <<>>>>>>, TokenSpans(1, TRUE), 126)}

InitStore ==
    /\ pc = "store_loop"
    /\ \E n \in 1..MaxStoreRows : data \in [1..n -> StoreSamples]
    /\ num_rows_per_file \in 1..MaxChunk
    /\ padding_value = 0      \* the eos id is only copied into the token strings
    /\ arg = data
    /\ ret = {}
    /\ start = 0 /\ all_node_types = {} /\ global_max_rel_pos = 0 /\ files = <<>>
    /\ chunk_data = <<>>
    /\ failed_count = 0 /\ rows = <<>> /\ it = 0 /\ batch = <<>>
    /\ all_node_types_pkl = <<>>

\* one pass of the loop: process the chunk at start and write its file
StoreChunk ==
    /\ pc = "store_loop"
    /\ start < Len(data)
    /\ LET r == ProcessChunk(data, start, num_rows_per_file, padding_value)
       IN /\ all_node_types' = UpdateNodeTypes(all_node_types, r.chunk_node_types)
          /\ global_max_rel_pos' = MergeMaxRelPos(global_max_rel_pos, r.chunk_max_rel_pos)
          /\ chunk_data' = r.chunk_data
          /\ files' = (start :> r.file) @@ files
    /\ start' = start + num_rows_per_file
    /\ UNCHANGED <<pc, arg, data, ret, failed_count, rows, num_rows_per_file, it, batch,
                   padding_value,
                   all_node_types_pkl>>

StoreReturn ==
    /\ pc = "store_loop"
    /\ start >= Len(data)
    /\ ret' = <<all_node_types, global_max_rel_pos>>
    /\ pc' = "store_done"
    /\ UNCHANGED <<arg, data, failed_count, rows, start, num_rows_per_file, all_node_types,
                   global_max_rel_pos, files, chunk_data, it, batch, padding_value,
                   all_node_types_pkl>>

\* convert_node_types_to_indices called with the vocabulary that
\* store_preprocessed_data returned
ConvertNodeTypesToIndices ==
    /\ pc = "store_done"
    /\ LET r == convert_node_types_to_indices(files, ret[1])
       IN /\ all_node_types_pkl' = r.all_node_types
          /\ files' = r.files
          /\ IF r.raised
             THEN pc' = "convert_raised" /\ ret' = ret
             ELSE pc' = "convert_done" /\ ret' = r.global_max_ast_depth
    /\ UNCHANGED <<arg, data, failed_count, rows, start, num_rows_per_file, all_node_types,
                   global_max_rel_pos, chunk_data, it, batch, padding_value>>

NextStore == StoreChunk \/ StoreReturn \/ ConvertNodeTypesToIndices

SpecStore == InitStore /\ [][NextStore]_vars

\* the numbers a stored str of nested integer lists holds
NumbersIn(x) == {IntTable[x[i]] : i \in {j \in DOMAIN x : x[j] \in DOMAIN IntTable}}
SetMax(S) == CHOOSE m \in S : \A x \in S : x <= m

\* every relative distance stored in any row of any chunk file
StoredRelPos ==
    UNION {UNION {NumbersIn(files[s][i].code_tokens_rel_pos_ids) : i \in DOMAIN files[s]} :
              s \in DOMAIN files}

\* C10: for a non-empty dataset the returned global maximum is the largest entry
\* of any stored code_tokens_rel_pos_ids matrix, and it is fixed by the set of
\* samples alone: min(tokens + 2, 127) of the longest sample, whatever the
\* chunk size and the order of the rows.
C10_GlobalMaxRelPos ==
    (pc = "store_done" /\ Len(data) > 0) =>
        /\ ret[2] = SetMax(StoredRelPos)
        /\ ret[2] = SetMax({Min(Len(split(r.code_tokens, ",")) + 2, DefaultMaxDistance) :
                               r \in Range(data)})

\* C10 witness: a dataset stored in two chunks, the first of which holds the
\* larger distance, and a dataset whose longest sample is clipped.
C10_Witness ==
    /\ pc = "store_done"
    /\ Cardinality(DOMAIN files) = 2
    /\ ret[2] > SetMax(NumbersIn(files[num_rows_per_file][1].code_tokens_rel_pos_ids))

\* C10 second witness state: the clip value is returned for a sample of 128
\* positions.
C10_ClipReached ==
    /\ pc = "store_done"
    /\ ret[2] = DefaultMaxDistance
    /\ \E r \in Range(data) : Len(split(r.code_tokens, ",")) + 2 > DefaultMaxDistance

-----------------------------------------------------------------------------
(* Claims about the vocabulary and its indices *)

\* the node types of every path of every sample of the dataset: every node of
\* a tree lies on the path of some leaf, and every sample has both sentinel paths
DatasetTypes == UNION {Range(arg[i].ast.type) : i \in DOMAIN arg} \cup {START_AST, END_AST}

TypePos(t) == CHOOSE i \in DOMAIN TypeOrder : TypeOrder[i] = t
TypeRank(V, t) == Cardinality({u \in V : TypePos(u) < TypePos(t)})

\* C11: the vocabulary store_preprocessed_data returns is the union of the node
\* types of all paths of all samples, sentinels included; the conversion never
\* meets a type without an index, gives every type its rank in the sorted
\* vocabulary (a bijection onto 0..k-1 fixed by the set of types alone), and
\* every index written to a chunk file is the rank of the type at that place
\* of that path, so it lies in 0..k-1 and is never the padding id k.
C11_VocabularyIndices ==
    /\ pc # "convert_raised"
    /\ pc = "store_done" => ret[1] = DatasetTypes
    /\ pc = "convert_done" =>
          LET V == DatasetTypes
              k == Cardinality(V)
          IN /\ Len(all_node_types_pkl) = k
             /\ Range(all_node_types_pkl) = V
             /\ \A i \in 1..k : TypeRank(V, all_node_types_pkl[i]) = i - 1
             /\ \A s \in DOMAIN files : \A i \in DOMAIN files[s] :
                   LET stored == literal_eval(files[s][i].lr_paths_types)
                       paths == curr_lr_paths(arg[s + i])
                   IN /\ Len(stored) = Len(paths)
                      /\ \A x \in DOMAIN stored :
                            /\ Len(stored[x]) = Len(paths[x])
                            /\ \A n \in DOMAIN stored[x] :
                                  /\ stored[x][n] = TypeRank(V, paths[x][n].type)
                                  /\ stored[x][n] \in 0..(k - 1)
                                  /\ stored[x][n] # k

\* C11 witness: a converted dataset of two chunk files with all four node
\* types, one of whose samples lacks a type of the vocabulary, so that the
\* vocabulary needs the union over the chunks.
C11_Witness ==
    /\ pc = "convert_done"
    /\ Cardinality(DOMAIN files) = 2
    /\ Len(all_node_types_pkl) = 4
    /\ \E i \in DOMAIN arg : "a" \notin Range(arg[i].ast.type)
    /\ \E s \in DOMAIN files : \E i \in DOMAIN files[s] :
          \E x \in DOMAIN literal_eval(files[s][i].lr_paths_types) :
              3 \in Range(literal_eval(files[s][i].lr_paths_types)[x])

-----------------------------------------------------------------------------
(* Claims about the shift for the special tokens *)

\* the rows of the dataset that the chunk in memory was made from
ChunkOrigin == SubSeq(arg, start - num_rows_per_file + 1, Min(start, Len(arg)))

\* C12: in a chunk that went through the DFG remap and then the special tokens,
\* every token-span index is its value in the input plus one and every edge
\* endpoint is its rank among the participating leaves plus one: node i carries
\* the shifted span of the i-th participating leaf, no span index is 0, and every
\* endpoint lies in 1..k, a place of dfg_node_mask that holds 1, while places 0
\* and k + 1 hold the sentinels.
C12_ShiftedOnce ==
    chunk_data # <<>> =>
        /\ Len(chunk_data) = Len(ChunkOrigin)
        /\ \A i \in DOMAIN chunk_data :
              LET row == chunk_data[i]
                  orig == ChunkOrigin[i]
                  S == DfgLeafSet(orig.dfg_edges)
                  k == Cardinality(S)
                  leafs == row.ast_leaf_code_token_idxs
                  nodes == row.dfg_node_code_token_idxs
                  edges == row.dfg_edges
                  ends == DfgLeafSet(edges)
              IN /\ Len(leafs) = Len(orig.ast_leaf_code_token_idxs)
                 /\ \A l \in DOMAIN leafs :
                       /\ Len(leafs[l]) = Len(orig.ast_leaf_code_token_idxs[l])
                       /\ \A j \in DOMAIN leafs[l] :
                             leafs[l][j] = orig.ast_leaf_code_token_idxs[l][j] + 1
                 /\ Len(nodes) = k
                 /\ \A s \in S : nodes[RankIn(S, s) + 1] = leafs[s + 1]
                 /\ \A n \in DOMAIN nodes : \A j \in DOMAIN nodes[n] : nodes[n][j] >= 1
                 /\ Len(edges) = Len(orig.dfg_edges)
                 /\ \A e \in DOMAIN edges :
                       /\ edges[e][1] = RankIn(S, orig.dfg_edges[e][1]) + 1
                       /\ Len(edges[e][2]) = Len(orig.dfg_edges[e][2])
                       /\ \A r \in DOMAIN edges[e][2] :
                             edges[e][2][r] = RankIn(S, orig.dfg_edges[e][2][r]) + 1
                 /\ ends \subseteq 1..k
                 /\ ends # {} =>
                       LET mask == parse_dfg_node_mask(row.dfg_node_mask)
                       IN /\ MaskParses(row.dfg_node_mask)
                          /\ Len(mask) = k + 2
                          /\ \A p \in ends : mask[p + 1] = 1
                          /\ mask[1] = START_TOK_ID_DFG /\ mask[k + 2] = PAD_TOK_ID_DFG

\* C12 witness: the second chunk of a dataset, with a sample of two DFG nodes
\* whose edges reach both node 1 and node k = 2 and whose leaves span more than
\* one code token.
C12_Witness ==
    /\ chunk_data # <<>>
    /\ start > num_rows_per_file
    /\ \E i \in DOMAIN chunk_data :
          /\ DfgLeafSet(chunk_data[i].dfg_edges) = {1, 2}
          /\ Len(chunk_data[i].dfg_node_code_token_idxs) = 2
          /\ \E n \in DOMAIN chunk_data[i].dfg_node_code_token_idxs :
                Len(chunk_data[i].dfg_node_code_token_idxs[n]) >= 2
          /\ ChunkOrigin[i].dfg_edges[1][2] = <<2>>

====
